---- MODULE Spec2Model ----
(***************************************************************************)
(* Model of jeffh/flage: the subcommand iterator (flagSetIterator) driving *)
(* flag.FlagSet option-sets, and the Reset contract of the option values.  *)
(*                                                                         *)
(* Tokens are strings drawn from a finite alphabet; the character-level    *)
(* tests of flag.FlagSet.parseOne (leading '-', "--", the flag name) are   *)
(* tabulated for that alphabet.  No token of the alphabet contains '=', so *)
(* parseOne's "-name=value" branch never triggers.  Every option-set uses  *)
(* flag.ContinueOnError, as all the repository's tests do.                 *)
(***************************************************************************)
EXTENDS Integers, Sequences, FiniteSets, TLC

\* ------------------------------------------------------------------ bounds
MaxArgs == 4
MaxAdv == 2
MaxSegs == 2
MaxUses == 2

\* Calls made on an option value exercised on its own.
MaxOps == 3

\* Set and Reset calls made on a container option.
MaxBoxOps == 4

\* Envs in a chain, from the one queried to the root.
MaxChain == 2

\* Characters of a configuration file's text.
MaxFile == 5

\* ---------------------------------------------------------------- tokens
Tokens == {"deploy", "test", "-env", "-x", "-verbose", "--", "-help", "7"}

\* parseOne: len(s) >= 2 && s[0] == '-'
IsFlagTok(s) == s \in {"-env", "-x", "-verbose", "--", "-help"}

\* parseOne: name := s[numMinuses:]
FlagName(s) ==
  CASE s = "-env" -> "env"
    [] s = "-x" -> "x"
    [] s = "-verbose" -> "verbose"
    [] s = "-help" -> "help"
    [] OTHER -> ""

RECURSIVE SeqsUpTo(_, _)
SeqsUpTo(S, n) ==
  IF n = 0 THEN {<<>>}
  ELSE LET shorter == SeqsUpTo(S, n - 1)
       IN shorter \cup {Append(q, t) : q \in {r \in shorter : Len(r) = n - 1}, t \in S}

\* ----------------------------------------------------- option-set objects
\* Three flag.FlagSet objects.  impl is the flag.Value registered in the set:
\*   resettableValue    flage.BoolVar/StringVar/IntVar (values.go newVar)
\*   resettableFlagVar  flage.Var wrapping a value (here a *StringSlice)
\*   stdString          the standard library's fs.StringVar (struct.go StructVar)
\*   stdText            the standard library's fs.TextVar over a type whose
\*                      UnmarshalText parses a number (struct.go StructVar)
NoSet == 0
SetIds == {1, 2, 3}

SetName(s) == IF s = 2 THEN "test" ELSE "deploy"

Opts(s) ==
  CASE s = 1 -> [env |-> [impl |-> "resettableValue", type |-> "string", def |-> "dev"],
                 x |-> [impl |-> "resettableFlagVar", type |-> "StringSlice", def |-> ""]]
    [] s = 2 -> [verbose |-> [impl |-> "resettableValue", type |-> "bool", def |-> FALSE],
                 x |-> [impl |-> "resettableValue", type |-> "int", def |-> 1]]
    [] s = 3 -> [env |-> [impl |-> "stdString", type |-> "string", def |-> "dev"],
                 x |-> [impl |-> "stdText", type |-> "int", def |-> 1]]

\* The lists of option-sets an iterator is built over.
SetLists == {<<1, 2>>, <<3, 1, 2>>, <<>>}

\* Value of an option right after its option-set is constructed.
InitVal(o) ==
  CASE o.type \in {"StringSlice", "Int64Slice"} -> <<>>
    [] o.type = "EnvMap" -> [k \in {} |-> <<>>]
    [] o.impl = "textMarshalVar" -> IF o.def = "1" THEN 1 ELSE 7
    [] OTHER -> o.def

InitVals == [s \in SetIds |-> [n \in DOMAIN Opts(s) |-> InitVal(Opts(s)[n])]]

\* ------------------------------------------------------------ option values
\* strconv.ParseInt over the texts used: only "7" and "1" are numbers.
parseInt(s) ==
  CASE s = "7" -> [v |-> 7, ok |-> TRUE]
    [] s = "1" -> [v |-> 1, ok |-> TRUE]
    [] OTHER -> [v |-> 0, ok |-> FALSE]

\* strconv.ParseBool over the texts parseOne passes ("true") and the alphabet.
parseBool(s) == IF s = "true" THEN [v |-> TRUE, ok |-> TRUE] ELSE [v |-> FALSE, ok |-> FALSE]

stringParser(s) == [v |-> s, ok |-> TRUE]

\* strings.SplitN(value, "=", 2) over the texts used.
EnvSplit(s) == IF s = "K=7" THEN <<"K", "7">> ELSE <<s>>

\* flag.Value.Set of option o holding cur, given text s: the stored value
\* afterwards and whether Set returned nil.
SetValue(o, cur, s) ==
  CASE o.impl = "resettableValue" ->
         \* v, err := b.parser(s); *b.ptr = v  (the store happens on error too)
         (CASE o.type = "bool" -> parseBool(s)
            [] o.type = "int" -> parseInt(s)
            [] OTHER -> stringParser(s))
    [] \/ o.impl \in {"stdText", "textMarshalVar"}
       \/ o.impl = "resettableFlagVar" /\ o.type = "int" ->
         \* v, err := strconv.ParseInt(...); if err == nil { t.X = int(v) }
         IF parseInt(s).ok THEN parseInt(s) ELSE [v |-> cur, ok |-> FALSE]
    [] o.type = "StringSlice" -> [v |-> Append(cur, s), ok |-> TRUE]
    [] o.type = "Int64Slice" ->
         \* if value != "" { v, err := ParseInt; if err != nil { return err }; append }
         IF s = "" THEN [v |-> cur, ok |-> TRUE]
         ELSE IF parseInt(s).ok THEN [v |-> Append(cur, parseInt(s).v), ok |-> TRUE]
         ELSE [v |-> cur, ok |-> FALSE]
    [] o.type = "EnvMap" ->
         \* (*e)[key] = append((*e)[key], value)
         LET key == EnvSplit(s)[1]
             val == IF Len(EnvSplit(s)) = 1 THEN "" ELSE EnvSplit(s)[2]
         IN [v |-> IF key \in DOMAIN cur
                   THEN [cur EXCEPT ![key] = Append(@, val)]
                   ELSE cur @@ (key :> <<val>>),
             ok |-> TRUE]
    [] OTHER -> [v |-> s, ok |-> TRUE]

\* Mutant of Reset: a slice is kept instead of replaced by an empty one.
Reset_keepSlice(o, cur) ==
  IF o.type = "StringSlice" THEN cur
  ELSE IF o.impl = "resettableValue" THEN o.def
  ELSE SetValue(o, cur, "").v

\* Whether the registered flag.Value has a Reset() method (interface resetable).
IsResetable(o) ==
  o.impl \in {"resettableValue", "resettableFlagVar", "textMarshalVar",
              "StringSlice", "Int64Slice", "EnvMap"}

\* Mutant of Reset: no value is taken to have a Reset method.
Reset_alwaysSetEmpty(o, cur) == SetValue(o, cur, "").v

\* flage.Reset(f.Value) on option o holding cur: the value's own Reset() when
\* it has one, f.Set("") with the error dropped otherwise.
Reset(o, cur) ==
  IF IsResetable(o)
  THEN (CASE o.impl = "resettableValue" -> o.def
          [] o.impl = "resettableFlagVar" ->
               IF o.type \in {"StringSlice", "Int64Slice"} THEN <<>>
               ELSE SetValue(o, cur, o.def).v
          [] o.impl = "textMarshalVar" -> SetValue(o, cur, o.def).v
          [] o.impl = "EnvMap" -> [k \in {} |-> <<>>]
          [] OTHER -> <<>>)
  ELSE SetValue(o, cur, "").v

\* set.VisitAll(func(f *flag.Flag) { Reset(f.Value) })
ResetAll(s, v) == [n \in DOMAIN Opts(s) |-> Reset(Opts(s)[n], v[n])]

IsBoolFlag(o) == o.impl = "resettableValue" /\ o.type = "bool"

\* ------------------------------------------------------------------ errors
NoErr == [kind |-> "nil", detail |-> ""]
ErrNoMatchingFlagSet == [kind |-> "ErrNoMatchingFlagSet", detail |-> ""]
ErrUnknownCommand(tok) == [kind |-> "ErrUnknownCommand", detail |-> tok]
ErrHelp == [kind |-> "ErrHelp", detail |-> ""]
\* f.failf(...): an error of the flag package that is none of the sentinels.
ParseErr(what, name) == [kind |-> what, detail |-> name]

\* ------------------------------------------------------- flag.FlagSet.Parse
\* FlagSet.Parse(arguments) of option-set s whose options hold v: parseOne is
\* repeated until it sees no flag or fails.  Yields the option values, the
\* FlagSet's own unparsed arguments (f.args, reported by Args()/NArg()) and
\* the error returned.
RECURSIVE Parse(_, _, _)
Parse(s, v, a) ==
  IF a = <<>> THEN [vals |-> v, args |-> a, err |-> NoErr]
  ELSE IF ~IsFlagTok(Head(a)) THEN [vals |-> v, args |-> a, err |-> NoErr]
  ELSE IF Head(a) = "--" THEN [vals |-> v, args |-> Tail(a), err |-> NoErr]
  ELSE
    LET name == FlagName(Head(a))
        rest == Tail(a)
    IN IF name \notin DOMAIN Opts(s)
       THEN IF name \in {"help", "h"}
            THEN [vals |-> v, args |-> rest, err |-> ErrHelp]
            ELSE [vals |-> v, args |-> rest,
                  err |-> ParseErr("flag provided but not defined", name)]
       ELSE LET o == Opts(s)[name]
            IN IF IsBoolFlag(o)
               THEN LET r == SetValue(o, v[name], "true")
                        v2 == [v EXCEPT ![name] = r.v]
                    IN IF r.ok THEN Parse(s, v2, rest)
                       ELSE [vals |-> v2, args |-> rest,
                             err |-> ParseErr("invalid boolean flag", name)]
               ELSE IF rest = <<>>
               THEN [vals |-> v, args |-> rest,
                     err |-> ParseErr("flag needs an argument", name)]
               ELSE LET r == SetValue(o, v[name], Head(rest))
                        v2 == [v EXCEPT ![name] = r.v]
                    IN IF r.ok THEN Parse(s, v2, Tail(rest))
                       ELSE [vals |-> v2, args |-> Tail(rest),
                             err |-> ParseErr("invalid value", name)]

\* ---------------------------------------------------------- flagSetIterator
\* it.names: nil until the first findSet, the names of it.Sets afterwards.
NilNames == [isNil |-> TRUE, elems |-> <<>>]

\* findSet, first loop: it.names[i] = set.Name()
BuildNames(sets) == [i \in 1..Len(sets) |-> SetName(sets[i])]

\* Mutant of FirstIndex: the last index whose name equals name.
FirstIndex_last(elems, name) ==
  IF \E i \in 1..Len(elems) : elems[i] = name
  THEN CHOOSE i \in 1..Len(elems) :
         /\ elems[i] = name
         /\ \A j \in (i + 1)..Len(elems) : elems[j] # name
  ELSE 0

\* findSet, second loop: the first index whose name equals name, 0 if none.
FirstIndex(elems, name) ==
  IF \E i \in 1..Len(elems) : elems[i] = name
  THEN CHOOSE i \in 1..Len(elems) :
         /\ elems[i] = name
         /\ \A j \in 1..(i - 1) : elems[j] # name
  ELSE 0

\* Mutant of findSet: a miss clears it.curr.
findSet_clearOnMiss(it, name) ==
  LET ns == [isNil |-> FALSE, elems |-> BuildNames(it.Sets)]
      idx == FirstIndex(ns.elems, name)
  IN IF idx # 0
     THEN [it |-> [it EXCEPT !.names = ns, !.curr = it.Sets[idx]], set |-> it.Sets[idx]]
     ELSE [it |-> [it EXCEPT !.names = ns, !.curr = NoSet], set |-> NoSet]

\* flagSetIterator.findSet(name) on iterator record it: the iterator afterwards
\* (names cached, curr set on a hit) and the set found (NoSet for nil).
findSet(it, name) ==
  LET ns == IF it.names.isNil
            THEN [isNil |-> FALSE, elems |-> BuildNames(it.Sets)]
            ELSE it.names
      idx == FirstIndex(ns.elems, name)
  IN IF idx # 0
     THEN [it |-> [it EXCEPT !.names = ns, !.curr = it.Sets[idx]], set |-> it.Sets[idx]]
     ELSE [it |-> [it EXCEPT !.names = ns], set |-> NoSet]

\* Mutant of TailAfter: only the command name is dropped.
TailAfter_headOnly(args, narg) == SubSeq(args, 2, Len(args))

\* Mutant of TailAfter: one consumed token too many is kept.
TailAfter_offByOne(args, narg) == SubSeq(args, Len(args) - narg, Len(args))

\* Mutant of TailAfter: nothing is dropped.
TailAfter_keepAll(args, narg) == args

\* it.Args[len(it.Args)-set.NArg():]
TailAfter(args, narg) == SubSeq(args, Len(args) - narg + 1, Len(args))

\* Mutant of UnknownStep: the unrecognized token is dropped.
UnknownStep_skipToken(f, it0, st) ==
  [it |-> [f.it EXCEPT !.err = ErrUnknownCommand(it0.Args[1]), !.Args = Tail(it0.Args)],
   st |-> st, ret |-> FALSE]

\* Next, no option-set has the name of the head: the error names the token.
UnknownStep(f, it0, st) ==
  [it |-> [f.it EXCEPT !.err = ErrUnknownCommand(it0.Args[1])], st |-> st, ret |-> FALSE]

\* Mutant of MatchedStep: a failed parse consumes the command name.
MatchedStep_consumeHead(f, it0, st) ==
  LET s == f.set
      p == Parse(s, ResetAll(s, st.vals[s]), Tail(it0.Args))
      st2 == [vals |-> [st.vals EXCEPT ![s] = p.vals],
              fsArgs |-> [st.fsArgs EXCEPT ![s] = p.args]]
  IN IF p.err # NoErr
     THEN [it |-> [f.it EXCEPT !.err = p.err, !.Args = Tail(it0.Args)],
           st |-> st2, ret |-> FALSE]
     ELSE [it |-> [f.it EXCEPT !.err = p.err,
                               !.Args = TailAfter(it0.Args, Len(p.args)),
                               !.parsedOne = TRUE],
           st |-> st2, ret |-> TRUE]

\* Mutant of MatchedStep: the parser's error is wrapped in a new error.
MatchedStep_wrapErr(f, it0, st) ==
  LET s == f.set
      p == Parse(s, ResetAll(s, st.vals[s]), Tail(it0.Args))
      st2 == [vals |-> [st.vals EXCEPT ![s] = p.vals],
              fsArgs |-> [st.fsArgs EXCEPT ![s] = p.args]]
  IN IF p.err # NoErr
     THEN [it |-> [f.it EXCEPT !.err = [kind |-> "wrapped", detail |-> p.err.kind]],
           st |-> st2, ret |-> FALSE]
     ELSE [it |-> [f.it EXCEPT !.err = p.err,
                               !.Args = TailAfter(it0.Args, Len(p.args)),
                               !.parsedOne = TRUE],
           st |-> st2, ret |-> TRUE]

\* Mutant of MatchedStep: a failed parse puts the earlier it.curr back.
MatchedStep_restoreCurr(f, it0, st) ==
  LET s == f.set
      p == Parse(s, ResetAll(s, st.vals[s]), Tail(it0.Args))
      st2 == [vals |-> [st.vals EXCEPT ![s] = p.vals],
              fsArgs |-> [st.fsArgs EXCEPT ![s] = p.args]]
  IN IF p.err # NoErr
     THEN [it |-> [f.it EXCEPT !.err = p.err, !.curr = it0.curr],
           st |-> st2, ret |-> FALSE]
     ELSE [it |-> [f.it EXCEPT !.err = p.err,
                               !.Args = TailAfter(it0.Args, Len(p.args)),
                               !.parsedOne = TRUE],
           st |-> st2, ret |-> TRUE]

\* Mutant of MatchedStep: the options of every option-set are reset, not only
\* those of the matched one.
MatchedStep_resetEverySet(f, it0, st) ==
  LET s == f.set
      p == Parse(s, ResetAll(s, st.vals[s]), Tail(it0.Args))
      st2 == [vals |-> [t \in SetIds |->
                          IF t = s THEN p.vals ELSE ResetAll(t, st.vals[t])],
              fsArgs |-> [st.fsArgs EXCEPT ![s] = p.args]]
  IN IF p.err # NoErr
     THEN [it |-> [f.it EXCEPT !.err = p.err], st |-> st2, ret |-> FALSE]
     ELSE [it |-> [f.it EXCEPT !.err = p.err,
                               !.Args = TailAfter(it0.Args, Len(p.args)),
                               !.parsedOne = TRUE],
           st |-> st2, ret |-> TRUE]

\* Next, option-set f.set has the name of the head: its options are reset,
\* it parses the arguments after the head, and on success the iterator keeps
\* the arguments the option-set left unparsed.
MatchedStep(f, it0, st) ==
  LET s == f.set
      p == Parse(s, ResetAll(s, st.vals[s]), Tail(it0.Args))
      st2 == [vals |-> [st.vals EXCEPT ![s] = p.vals],
              fsArgs |-> [st.fsArgs EXCEPT ![s] = p.args]]
  IN IF p.err # NoErr
     THEN [it |-> [f.it EXCEPT !.err = p.err], st |-> st2, ret |-> FALSE]
     ELSE [it |-> [f.it EXCEPT !.err = p.err,
                               !.Args = TailAfter(it0.Args, Len(p.args)),
                               !.parsedOne = TRUE],
           st |-> st2, ret |-> TRUE]

\* Mutant of NoArgsStep: running out of arguments is never an error.
NoArgsStep_noError(it0, st) == [it |-> it0, st |-> st, ret |-> FALSE]

\* Mutant of NoArgsStep: it.parsedOne is not consulted.
NoArgsStep_alwaysError(it0, st) ==
  [it |-> [it0 EXCEPT !.err = ErrNoMatchingFlagSet], st |-> st, ret |-> FALSE]

\* Next, no arguments remain.
NoArgsStep(it0, st) ==
  [it |-> IF ~it0.parsedOne THEN [it0 EXCEPT !.err = ErrNoMatchingFlagSet] ELSE it0,
   st |-> st, ret |-> FALSE]

\* Mutant of Next: the error of the previous step is not cleared first.
NextStep_keepErr(it, st) ==
  LET it0 == it
  IN IF Len(it0.Args) > 0
     THEN LET f == findSet(it0, it0.Args[1])
          IN IF f.set = NoSet
             THEN UnknownStep(f, it0, st)
             ELSE MatchedStep(f, it0, st)
     ELSE NoArgsStep(it0, st)

\* flagSetIterator.Next() on iterator record it with the option-sets' state st
\* (vals: the output storage, fsArgs: each FlagSet's own unparsed arguments).
NextStep(it, st) ==
  LET it0 == [it EXCEPT !.err = NoErr]
  IN IF Len(it0.Args) > 0
     THEN LET f == findSet(it0, it0.Args[1])
          IN IF f.set = NoSet
             THEN UnknownStep(f, it0, st)
             ELSE MatchedStep(f, it0, st)
     ELSE NoArgsStep(it0, st)

\* Mutant of Advance: skipping exactly all the arguments counts as a success.
AdvanceStep_sizeLess(it, i) ==
  LET size == Len(it.Args)
  IN IF size < i
     THEN [it |-> [it EXCEPT !.Args = SubSeq(it.Args, size + 1, size)], ret |-> FALSE]
     ELSE [it |-> [it EXCEPT !.Args = SubSeq(it.Args, i + 1, size)], ret |-> TRUE]

\* Mutant of Advance: the error of the last Next is cleared.
AdvanceStep_clearErr(it, i) ==
  LET size == Len(it.Args)
  IN IF size <= i
     THEN [it |-> [it EXCEPT !.Args = SubSeq(it.Args, size + 1, size), !.err = NoErr],
           ret |-> FALSE]
     ELSE [it |-> [it EXCEPT !.Args = SubSeq(it.Args, i + 1, size), !.err = NoErr],
           ret |-> TRUE]

\* flagSetIterator.Advance(i)
AdvanceStep(it, i) ==
  LET size == Len(it.Args)
  IN IF size <= i
     THEN [it |-> [it EXCEPT !.Args = SubSeq(it.Args, size + 1, size)], ret |-> FALSE]
     ELSE [it |-> [it EXCEPT !.Args = SubSeq(it.Args, i + 1, size)], ret |-> TRUE]

\* newFlagSetIterator(args, sets): the other fields hold their zero values.
newFlagSetIterator(args, sets) ==
  [Args |-> args, Sets |-> sets, names |-> NilNames, curr |-> NoSet,
   err |-> NoErr, parsedOne |-> FALSE]

\* Mutant of Init: it.parsedOne is not cleared.
IteratorInit_keepParsedOne(it, sets, args) ==
  [it EXCEPT !.Sets = sets, !.Args = args, !.names = NilNames, !.curr = NoSet,
             !.err = NoErr]

\* flagSetIterator.Init(sets, args) on iterator record it.
IteratorInit(it, sets, args) ==
  [it EXCEPT !.Sets = sets, !.Args = args, !.names = NilNames, !.curr = NoSet,
             !.err = NoErr, !.parsedOne = FALSE]

\* ------------------------------------------------------------------- state
VARIABLES
  Args,       \* it.Args: the remaining arguments
  Sets,       \* it.Sets: the option-sets (ids of FlagSet objects)
  names,      \* it.names
  curr,       \* it.curr (NoSet for nil)
  err,        \* it.err
  parsedOne,  \* it.parsedOne
  vals,       \* output storage of every option-set: vals[set][option]
  fsArgs,     \* FlagSet.Args() of every option-set
  op,         \* the last call made on the iterator
  ret,        \* what that call returned
  hist,       \* history: the steps that returned true since construction/Init
  segs,       \* history: the segments the argument vector was built from
  calls,      \* history: number of Next calls made (chained runs only)
  cell,       \* one option value on its own, outside any iterator
  box,        \* one container-typed option with the memory it points into
  env,        \* one chain of Env objects and the last query made on it
  cfg         \* one configuration file text and what parsing it gave

vars == <<Args, Sets, names, curr, err, parsedOne, vals, fsArgs, op, ret, hist, segs,
          calls, cell, box, env, cfg>>

\* The variables of the iterator and its option-sets.
iterVars == <<Args, Sets, names, curr, err, parsedOne, vals, fsArgs, op, ret, hist, segs,
              calls>>

it == [Args |-> Args, Sets |-> Sets, names |-> names, curr |-> curr,
       err |-> err, parsedOne |-> parsedOne]

st == [vals |-> vals, fsArgs |-> fsArgs]

SetIt(n) ==
  /\ Args' = n.Args
  /\ Sets' = n.Sets
  /\ names' = n.names
  /\ curr' = n.curr
  /\ err' = n.err
  /\ parsedOne' = n.parsedOne

\* No option value is being exercised on its own.
NoCell == [o |-> [impl |-> "none", type |-> "none", def |-> ""], cur |-> "",
           init |-> "", ok |-> TRUE, err |-> "nil", panic |-> FALSE, arg |-> "",
           ops |-> <<>>, render |-> [shape |-> "none", text |-> "", panic |-> FALSE]]

\* No container, Env chain or configuration file is being exercised.
NoBox == [kind |-> "none"]
NoEnv == [chain |-> <<>>]
NoCfg == [text |-> <<>>]

\* The iterator and its option-sets before anything is built: what the
\* specifications of the other objects hold them at.
NoIterator ==
  /\ Args = <<>>
  /\ Sets = <<>>
  /\ names = [isNil |-> TRUE, elems |-> <<>>]
  /\ curr = NoSet
  /\ err = NoErr
  /\ parsedOne = FALSE
  /\ vals = InitVals
  /\ fsArgs = [s \in SetIds |-> <<>>]
  /\ op = "new"
  /\ ret = FALSE
  /\ hist = <<>>
  /\ segs = <<>>
  /\ calls = 0

ArgVectors == SeqsUpTo(Tokens, MaxArgs)

\* Argument vectors handed to Init on a used iterator.
ReinitArgs == {<<>>, <<"deploy", "test">>}

Init ==
  /\ \E a \in ArgVectors, l \in SetLists :
       LET n == newFlagSetIterator(a, l)
       IN /\ Args = n.Args
          /\ Sets = n.Sets
          /\ names = n.names
          /\ curr = n.curr
          /\ err = n.err
          /\ parsedOne = n.parsedOne
  /\ vals = InitVals
  /\ fsArgs = [s \in SetIds |-> <<>>]
  /\ op = "new"
  /\ ret = FALSE
  /\ hist = <<>>
  /\ segs = <<>>
  /\ calls = 0
  /\ cell = NoCell
  /\ box = NoBox
  /\ env = NoEnv
  /\ cfg = NoCfg

\* One entry of hist: the option-set a true step matched and what its output
\* storage held when the step returned.
Matched(s, v) == [set |-> s, vals |-> v]

\* The part of a Next call shared by both specifications.
NextBody ==
  LET r == NextStep(it, st)
  IN /\ SetIt(r.it)
     /\ vals' = r.st.vals
     /\ fsArgs' = r.st.fsArgs
     /\ op' = "Next"
     /\ ret' = r.ret
     /\ hist' = IF r.ret THEN Append(hist, Matched(r.it.curr, r.st.vals[r.it.curr])) ELSE hist
     /\ UNCHANGED <<cell, box, env, cfg>>

NextCall == NextBody /\ UNCHANGED <<segs, calls>>

AdvanceCall ==
  \E i \in 0..MaxAdv :
    LET r == AdvanceStep(it, i)
    IN /\ SetIt(r.it)
       /\ op' = "Advance"
       /\ ret' = r.ret
       /\ UNCHANGED <<vals, fsArgs, hist, segs, calls, cell, box, env, cfg>>

InitCall ==
  \E a \in ReinitArgs, l \in SetLists :
    /\ SetIt(IteratorInit(it, l, a))
    /\ op' = "Init"
    /\ ret' = FALSE
    /\ hist' = <<>>
    /\ UNCHANGED <<vals, fsArgs, segs, calls, cell, box, env, cfg>>

Next == NextCall \/ AdvanceCall \/ InitCall

Spec == Init /\ [][Next]_vars

\* One iterator on which only Next is called, until it returns false.
SpecRun == Init /\ [][NextCall]_vars

TypeOK ==
  /\ Args \in ArgVectors
  /\ Sets \in SetLists
  /\ curr \in SetIds \cup {NoSet}
  /\ parsedOne \in BOOLEAN
  /\ ret \in BOOLEAN
  /\ op \in {"new", "Next", "Advance", "Init"}

\* ------------------------------------------------- chained argument vectors
\* A use of an option on the command line: the flag token, then its value
\* token unless it is a boolean flag.
FlagTok(n) ==
  CASE n = "env" -> "-env"
    [] n = "x" -> "-x"
    [] n = "verbose" -> "-verbose"

\* Value texts the option's parser accepts.
AcceptedValues(o) ==
  CASE o.type = "int" -> {"7"}
    [] o.type = "string" -> {"test"}
    [] OTHER -> {"7"}

Uses(s) ==
  UNION {IF IsBoolFlag(Opts(s)[n])
         THEN {[name |-> n, toks |-> <<FlagTok(n)>>]}
         ELSE {[name |-> n, toks |-> <<FlagTok(n), v>>] : v \in AcceptedValues(Opts(s)[n])}
         : n \in DOMAIN Opts(s)}

RECURSIVE Flatten(_)
Flatten(ss) == IF ss = <<>> THEN <<>> ELSE Head(ss).toks \o Flatten(Tail(ss))

\* A segment: a command name, then at most MaxUses items: uses of options of
\* the option-set s that name selects, the last item possibly the "--"
\* terminator.
Segment(s, us, dd) ==
  [cmd |-> SetName(s), set |-> s, uses |-> us,
   toks |-> <<SetName(s)>> \o Flatten(us) \o (IF dd THEN <<"--">> ELSE <<>>)]

SegmentsOf(s) ==
  {Segment(s, us, FALSE) : us \in SeqsUpTo(Uses(s), MaxUses)}
    \cup {Segment(s, us, TRUE) : us \in SeqsUpTo(Uses(s), MaxUses - 1)}

\* The option-set a command name selects in list l is the first of that name.
Selected(l) == {l[i] : i \in {j \in 1..Len(l) : \A k \in 1..(j - 1) : SetName(l[k]) # SetName(l[j])}}

SegmentsFor(l) == UNION {SegmentsOf(s) : s \in Selected(l)}

InitChain ==
  /\ \E l \in SetLists \ {<<>>} :
       \E ss \in SeqsUpTo(SegmentsFor(l), MaxSegs) \ {<<>>} :
         /\ segs = ss
         /\ Args = Flatten(ss)
         /\ Sets = l
  /\ names = NilNames
  /\ curr = NoSet
  /\ err = NoErr
  /\ parsedOne = FALSE
  /\ vals = InitVals
  /\ fsArgs = [s \in SetIds |-> <<>>]
  /\ op = "new"
  /\ ret = FALSE
  /\ hist = <<>>
  /\ calls = 0
  /\ cell = NoCell
  /\ box = NoBox
  /\ env = NoEnv
  /\ cfg = NoCfg

\* Next is called until it has returned false once.
NextChain ==
  /\ calls <= Len(segs)
  /\ NextBody
  /\ calls' = calls + 1
  /\ UNCHANGED segs

SpecChain == InitChain /\ [][NextChain]_vars

\* ------------------------------------------------- one option value alone
\* The kinds of flag.Value the package offers, each with the default it is
\* declared with: typed for resettableValue, a text for Var and TextVar,
\* none for the slice types and EnvMap.
ValueKinds ==
  { [impl |-> "resettableValue", type |-> "bool", def |-> FALSE],
    [impl |-> "resettableValue", type |-> "bool", def |-> TRUE],
    [impl |-> "resettableValue", type |-> "int", def |-> 1],
    [impl |-> "resettableValue", type |-> "string", def |-> "dev"],
    [impl |-> "StringSlice", type |-> "StringSlice", def |-> ""],
    [impl |-> "Int64Slice", type |-> "Int64Slice", def |-> ""],
    [impl |-> "EnvMap", type |-> "EnvMap", def |-> ""],
    [impl |-> "textMarshalVar", type |-> "int", def |-> "1"],
    [impl |-> "resettableFlagVar", type |-> "StringSlice", def |-> "x"],
    [impl |-> "resettableFlagVar", type |-> "string", def |-> "dev"] }

\* The same kinds declared with a default text that the value's Set rejects:
\* TextVar over a number, Var over an Int64Slice, Var over a caller's
\* flag.Value that parses a number and has no Reset method.
MisdeclaredKinds ==
  { [impl |-> "textMarshalVar", type |-> "int", def |-> "x"],
    [impl |-> "resettableFlagVar", type |-> "Int64Slice", def |-> "x"],
    [impl |-> "resettableFlagVar", type |-> "int", def |-> "x"],
    [impl |-> "resettableFlagVar", type |-> "int", def |-> "7"] }

\* Texts handed to Set.
CellTexts == {"", "7", "x", "true", "K", "K=7"}

\* What the storage holds before a constructor has written to it.
ZeroOf(o) ==
  CASE o.type \in {"StringSlice", "Int64Slice"} -> <<>>
    [] o.type = "EnvMap" -> [k \in {} |-> <<>>]
    [] o.type = "int" -> 0
    [] o.type = "bool" -> FALSE
    [] OTHER -> ""

\* Whether the value handed to Var has a Reset method of its own.
InnerResetable(o) == o.type \in {"StringSlice", "Int64Slice"}

\* The constructors.  newVar: *ptr = defvalue.  Var: the value's own Reset
\* when it has one, p.Set(value) with a panic on error otherwise.  TextVar:
\* p.UnmarshalText(value) with a panic on error.  A slice or map: empty.
Construct(o) ==
  CASE o.impl = "resettableValue" -> [v |-> o.def, panic |-> FALSE]
    [] o.impl = "resettableFlagVar" /\ InnerResetable(o) -> [v |-> <<>>, panic |-> FALSE]
    [] o.impl \in {"resettableFlagVar", "textMarshalVar"} ->
         [v |-> SetValue(o, ZeroOf(o), o.def).v,
          panic |-> ~SetValue(o, ZeroOf(o), o.def).ok]
    [] OTHER -> [v |-> ZeroOf(o), panic |-> FALSE]

\* No String() call has been made.
NoRender == [shape |-> "none", text |-> "", panic |-> FALSE]

\* A value right after its constructor: nothing has been called on it.
\* ops, arg and render are history: the calls made, the text of the last Set
\* and the last String() call.
NewCell(o) ==
  [o |-> o, cur |-> Construct(o).v, init |-> Construct(o).v, ok |-> TRUE,
   err |-> "nil", panic |-> Construct(o).panic, arg |-> "", ops |-> <<>>,
   render |-> NoRender]

\* Mutant of SetError: every Set hands on the error its parser returned.
SetError_detailed(o) == "parser"

\* The error a failing Set returns: resettableValue replaces the parser's
\* error by errParse, textMarshalVar and the slice types return the parser's.
SetError(o) == IF o.impl = "resettableValue" THEN "errParse" ELSE "parser"

\* Mutant of ValueSet: a successful Set stores nothing.
ValueSet_noStore(c, s) ==
  LET r == SetValue(c.o, c.cur, s)
  IN [c EXCEPT !.ok = r.ok,
               !.err = IF r.ok THEN "nil" ELSE SetError(c.o),
               !.arg = s,
               !.ops = Append(@, IF r.ok THEN "Set" ELSE "SetFailed")]

\* Set(s) on the value: what it stores and the error it returns.
ValueSet(c, s) ==
  LET r == SetValue(c.o, c.cur, s)
  IN [c EXCEPT !.cur = r.v, !.ok = r.ok,
               !.err = IF r.ok THEN "nil" ELSE SetError(c.o),
               !.arg = s,
               !.ops = Append(@, IF r.ok THEN "Set" ELSE "SetFailed")]

\* Whether Reset() panics: resettableFlagVar over a value without Reset and
\* textMarshalVar set the declared default again and panic on an error.
ResetPanics(o, cur) ==
  /\ \/ o.impl = "resettableFlagVar" /\ ~InnerResetable(o)
     \/ o.impl = "textMarshalVar"
  /\ ~SetValue(o, cur, o.def).ok

\* Mutant of ValueReset: the value is left as it is.
ValueReset_noWrite(c) == [c EXCEPT !.ok = TRUE, !.ops = Append(@, "Reset")]

\* Reset() on the value.
ValueReset(c) ==
  IF ResetPanics(c.o, c.cur)
  THEN [c EXCEPT !.panic = TRUE, !.ops = Append(@, "ResetPanic")]
  ELSE [c EXCEPT !.cur = Reset(c.o, c.cur), !.ok = TRUE, !.err = "nil", !.arg = "",
                 !.ops = Append(@, "Reset")]

\* strconv.FormatBool, formatInt, formatString and MarshalText on the values
\* the texts used can give.
FormatValue(o, v) ==
  CASE o.type = "bool" -> IF v THEN "true" ELSE "false"
    [] o.type = "int" -> (CASE v = 7 -> "7" [] v = 1 -> "1" [] OTHER -> "0")
    [] OTHER -> v

\* The objects String() is called on: a constructed value, a nil receiver,
\* the zero value of the type (no storage pointer, no stringer; the flag
\* package makes one to print defaults), a value built without a stringer.
Shapes == {"constructed", "nilReceiver", "zeroValue", "nilStringer"}

\* String() of a value of kind o in the given shape holding v.
\* resettableValue: "" for a nil receiver, b.stringer(*b.ptr) otherwise.
\* textMarshalVar: "" for a nil receiver, the text MarshalText gives when the
\* pointer is a TextMarshaler, "" otherwise.
Render(o, shape, v) ==
  CASE shape = "nilReceiver" -> [shape |-> shape, text |-> "", panic |-> FALSE]
    [] o.impl = "resettableValue" /\ shape \in {"zeroValue", "nilStringer"} ->
         [shape |-> shape, text |-> "", panic |-> TRUE]
    [] o.impl = "textMarshalVar" /\ shape = "zeroValue" ->
         [shape |-> shape, text |-> "", panic |-> FALSE]
    [] OTHER -> [shape |-> shape, text |-> FormatValue(o, v), panic |-> FALSE]

InitValue ==
  /\ NoIterator
  /\ \E o \in ValueKinds \cup MisdeclaredKinds : cell = NewCell(o)
  /\ box = NoBox
  /\ env = NoEnv
  /\ cfg = NoCfg

SetCall ==
  /\ ~cell.panic
  /\ Len(cell.ops) < MaxOps
  /\ \E s \in CellTexts : cell' = ValueSet(cell, s)
  /\ UNCHANGED <<iterVars, box, env, cfg>>

ResetCall ==
  /\ ~cell.panic
  /\ Len(cell.ops) < MaxOps
  /\ cell' = ValueReset(cell)
  /\ UNCHANGED <<iterVars, box, env, cfg>>

\* String() is called on a value of the cell's kind.
RenderCall ==
  /\ ~cell.panic
  /\ cell.o.impl \in {"resettableValue", "textMarshalVar"}
  /\ \E shape \in Shapes :
       /\ shape = "nilStringer" => cell.o.impl = "resettableValue"
       /\ cell' = [cell EXCEPT !.render = Render(cell.o, shape, cell.cur)]
  /\ UNCHANGED <<iterVars, box, env, cfg>>

SpecValue == InitValue /\ [][SetCall \/ ResetCall \/ RenderCall]_vars

\* ------------------------------------- a container option and its memory
\* A StringSlice is a slice header (the array it points to, its length) over
\* an array in memory; an EnvMap is a reference to a map in memory.  A caller
\* that copies the option (old := *slice, old := envmap) holds a second
\* header or reference into the same memory.
BoxKinds == {"StringSlice", "EnvMap"}

\* Texts handed to Set.
BoxTexts == {"a", "b"}

\* make(StringSlice, 0) and make(EnvMap): a new object in memory.
EmptyObject(kind) ==
  IF kind = "EnvMap" THEN [k \in {} |-> <<>>] ELSE [cap |-> 0, elems |-> <<>>]

\* What a header or reference shows of the memory: the elements below the
\* header's length, or the map referred to.
Contents(b, h) ==
  IF b.kind = "EnvMap" THEN b.heap[h.addr]
  ELSE SubSeq(b.heap[h.addr].elems, 1, h.len)

\* A container option right after it is declared and handed to fs.Var.
NewBox(kind) ==
  [kind |-> kind, heap |-> <<EmptyObject(kind)>>, hdr |-> [addr |-> 1, len |-> 0],
   held |-> [addr |-> 0, len |-> 0], resetSince |-> FALSE, n |-> 0]

\* append(s, v): written in place when the array has room, otherwise into a
\* new array of twice the capacity that the elements are copied to.
AppendInPlace(b, v) ==
  [b EXCEPT !.heap[b.hdr.addr].elems[b.hdr.len + 1] = v, !.hdr.len = @ + 1]

AppendGrown(b, v) ==
  LET old == b.heap[b.hdr.addr]
      ncap == IF old.cap = 0 THEN 1 ELSE 2 * old.cap
      arr == [cap |-> ncap,
              elems |-> [i \in 1..ncap |->
                           IF i <= b.hdr.len THEN old.elems[i]
                           ELSE IF i = b.hdr.len + 1 THEN v ELSE ""]]
  IN [b EXCEPT !.heap = Append(@, arr),
               !.hdr = [addr |-> Len(b.heap) + 1, len |-> b.hdr.len + 1]]

\* StringSlice.Set: *i = append(*i, value).
\* EnvMap.Set: (*e)[key] = append((*e)[key], value), on the map referred to.
BoxSet(b, s) ==
  LET c == [b EXCEPT !.n = @ + 1]
  IN IF b.kind = "EnvMap"
     THEN LET m == b.heap[b.hdr.addr]
          IN [c EXCEPT !.heap[b.hdr.addr] =
                         IF s \in DOMAIN m THEN [m EXCEPT ![s] = Append(@, "")]
                         ELSE m @@ (s :> <<"">>)]
     ELSE IF b.hdr.len < b.heap[b.hdr.addr].cap
          THEN AppendInPlace(c, s)
          ELSE AppendGrown(c, s)

\* Mutant of BoxReset: the container is emptied where it is ((*i)[:0],
\* clear(*e)).
BoxReset_inPlace(b) ==
  IF b.kind = "EnvMap"
  THEN [b EXCEPT !.heap[b.hdr.addr] = EmptyObject(b.kind),
                 !.resetSince = (b.held.addr # 0), !.n = @ + 1]
  ELSE [b EXCEPT !.hdr.len = 0, !.resetSince = (b.held.addr # 0), !.n = @ + 1]

\* StringSlice.Reset: *i = make(StringSlice, 0).  EnvMap.Reset: *e = make(EnvMap).
BoxReset(b) ==
  [b EXCEPT !.heap = Append(@, EmptyObject(b.kind)),
            !.hdr = [addr |-> Len(b.heap) + 1, len |-> 0],
            !.resetSince = (b.held.addr # 0),
            !.n = @ + 1]

InitBox ==
  /\ NoIterator
  /\ cell = NoCell
  /\ \E k \in BoxKinds : box = NewBox(k)
  /\ env = NoEnv
  /\ cfg = NoCfg

BoxSetCall ==
  /\ box.n < MaxBoxOps
  /\ \E s \in BoxTexts : box' = BoxSet(box, s)
  /\ UNCHANGED <<iterVars, cell, env, cfg>>

BoxResetCall ==
  /\ box.n < MaxBoxOps
  /\ box' = BoxReset(box)
  /\ UNCHANGED <<iterVars, cell, env, cfg>>

\* The caller takes the sequence or map out of the option: old := *slice.
BoxHold ==
  /\ box.held.addr = 0
  /\ box' = [box EXCEPT !.held = box.hdr]
  /\ UNCHANGED <<iterVars, cell, env, cfg>>

SpecBox == InitBox /\ [][BoxSetCall \/ BoxResetCall \/ BoxHold]_vars

\* ------------------------------------------------------- a chain of Envs
\* An Env has a dictionary (Dict, possibly nil) and a parent.  A chain is the
\* sequence of dictionaries from the Env queried (index 1) up to the root.
EnvKeys == {"J", "K"}

\* The values a dictionary holds for a key.
EnvValueLists == {<<>>, <<"a">>, <<"b", "a">>}

\* EnvMap dictionaries over the keys, and the nil Dict.
EnvDicts ==
  {[isNil |-> TRUE, m |-> [k \in {} |-> <<>>]]} \cup
  UNION {{[isNil |-> FALSE, m |-> f] : f \in [ks -> EnvValueLists]} : ks \in SUBSET EnvKeys}

EnvChains == SeqsUpTo(EnvDicts, MaxChain) \ {<<>>}

\* Mutant of lookupMany: the parent is not consulted.
RECURSIVE lookupMany_ownOnly(_, _, _)
lookupMany_ownOnly(chain, i, key) ==
  IF i > Len(chain) \/ chain[i].isNil THEN [v |-> <<>>, ok |-> FALSE]
  ELSE IF key \in DOMAIN chain[i].m THEN [v |-> chain[i].m[key], ok |-> TRUE]
  ELSE [v |-> <<>>, ok |-> FALSE]

\* Env.lookupMany on the i-th Env of the chain (past the root: e == nil).
RECURSIVE lookupMany(_, _, _)
lookupMany(chain, i, key) ==
  IF i > Len(chain) THEN [v |-> <<>>, ok |-> FALSE]
  ELSE IF chain[i].isNil THEN lookupMany(chain, i + 1, key)
  ELSE IF key \in DOMAIN chain[i].m THEN [v |-> chain[i].m[key], ok |-> TRUE]
  ELSE lookupMany(chain, i + 1, key)

\* Env.lookup: the first of the values found, not found when there is none.
lookup(chain, key) ==
  LET r == lookupMany(chain, 1, key)
  IN IF r.ok /\ Len(r.v) > 0 THEN [v |-> r.v[1], ok |-> TRUE]
     ELSE [v |-> "", ok |-> FALSE]

\* Env.GetOrError: ok is FALSE when an error is returned.
GetOrError(chain, key) == lookup(chain, key)

\* Env.GetOr
GetOr(chain, key, defvalue) ==
  IF lookup(chain, key).ok THEN lookup(chain, key).v ELSE defvalue

\* Env.Keys on the i-th Env of the chain: e.Dict.Keys() panics on a nil Dict;
\* the parent's keys are collected into parentKeys, and keys is returned.
RECURSIVE Keys(_, _)
Keys(chain, i) ==
  IF chain[i].isNil THEN [keys |-> {}, panic |-> TRUE]
  ELSE IF i < Len(chain) /\ Keys(chain, i + 1).panic THEN [keys |-> {}, panic |-> TRUE]
  ELSE [keys |-> DOMAIN chain[i].m, panic |-> FALSE]

\* Env.Map: the values lookupMany finds for every key of Keys().
EnvMapOf(chain) ==
  IF Keys(chain, 1).panic THEN [m |-> [k \in {} |-> <<>>], panic |-> TRUE]
  ELSE [m |-> [k \in {x \in Keys(chain, 1).keys : lookupMany(chain, 1, x).ok} |->
                 lookupMany(chain, 1, k).v],
        panic |-> FALSE]

\* No query has been made on the chain.
NoQuery == [op |-> "none", key |-> "", v |-> "", ok |-> FALSE, keys |-> {},
            m |-> [k \in {} |-> <<>>], panic |-> FALSE]

InitEnv ==
  /\ NoIterator
  /\ cell = NoCell
  /\ box = NoBox
  /\ \E c \in EnvChains : env = [chain |-> c, q |-> NoQuery]
  /\ cfg = NoCfg

EnvLookupCall ==
  /\ \E key \in EnvKeys :
       env' = [env EXCEPT !.q = [NoQuery EXCEPT !.op = "Lookup", !.key = key,
                                                !.v = lookup(env.chain, key).v,
                                                !.ok = lookup(env.chain, key).ok]]
  /\ UNCHANGED <<iterVars, cell, box, cfg>>

EnvGetOrCall ==
  /\ \E key \in EnvKeys :
       env' = [env EXCEPT !.q = [NoQuery EXCEPT !.op = "GetOr", !.key = key,
                                                !.v = GetOr(env.chain, key, "default")]]
  /\ UNCHANGED <<iterVars, cell, box, cfg>>

EnvGetOrErrorCall ==
  /\ \E key \in EnvKeys :
       env' = [env EXCEPT !.q = [NoQuery EXCEPT !.op = "GetOrError", !.key = key,
                                                !.v = GetOrError(env.chain, key).v,
                                                !.ok = GetOrError(env.chain, key).ok]]
  /\ UNCHANGED <<iterVars, cell, box, cfg>>

EnvKeysCall ==
  /\ env' = [env EXCEPT !.q = [NoQuery EXCEPT !.op = "Keys",
                                              !.keys = Keys(env.chain, 1).keys,
                                              !.panic = Keys(env.chain, 1).panic]]
  /\ UNCHANGED <<iterVars, cell, box, cfg>>

EnvMapCall ==
  /\ env' = [env EXCEPT !.q = [NoQuery EXCEPT !.op = "Map",
                                              !.m = EnvMapOf(env.chain).m,
                                              !.panic = EnvMapOf(env.chain).panic]]
  /\ UNCHANGED <<iterVars, cell, box, cfg>>

SpecEnv ==
  InitEnv /\ [][EnvLookupCall \/ EnvGetOrCall \/ EnvGetOrErrorCall \/ EnvKeysCall
                  \/ EnvMapCall]_vars

\* ------------------------------------------------- configuration file text
\* A text is a sequence of characters: a word character, a space, the comment
\* character and the line break.
FileChars == {"a", " ", "#", "\n"}

FileTexts == SeqsUpTo(FileChars, MaxFile)

\* bufio.Scanner with ScanLines: the lines of s without their line breaks; a
\* line break at the end of s does not start a further line.
RECURSIVE ScanLines(_)
ScanLines(s) ==
  IF s = <<>> THEN <<>>
  ELSE IF \E i \in 1..Len(s) : s[i] = "\n"
       THEN LET i == CHOOSE k \in 1..Len(s) :
                       s[k] = "\n" /\ \A j \in 1..(k - 1) : s[j] # "\n"
            IN <<SubSeq(s, 1, i - 1)>> \o ScanLines(SubSeq(s, i + 1, Len(s)))
       ELSE <<s>>

\* strings.Cut(line, "#"): what precedes the first "#", and whether there is one.
Cut(line) ==
  IF \E i \in 1..Len(line) : line[i] = "#"
  THEN LET i == CHOOSE k \in 1..Len(line) :
                  line[k] = "#" /\ \A j \in 1..(k - 1) : line[j] # "#"
       IN [before |-> SubSeq(line, 1, i - 1), found |-> TRUE]
  ELSE [before |-> line, found |-> FALSE]

\* strings.TrimSpace(s) == ""
TrimsToEmpty(s) == \A i \in 1..Len(s) : s[i] \in {" ", "\n"}

\* fileToCmdlineArgs, the loop: when a line is skipped.
SkippedLine(line) == Cut(line).found /\ TrimsToEmpty(Cut(line).before)

\* fileToCmdlineArgs, the loop: every line kept is written with a space after it.
RECURSIVE WriteLines(_)
WriteLines(lines) ==
  IF lines = <<>> THEN <<>>
  ELSE (IF SkippedLine(Head(lines)) THEN <<>> ELSE Head(lines) \o <<" ">>)
       \o WriteLines(Tail(lines))

\* fileToCmdlineArgs: out.String()[0 : out.Len()-1] panics when out is empty.
fileToCmdlineArgs(s) ==
  LET out == WriteLines(ScanLines(s))
  IN IF Len(out) = 0 THEN [s |-> <<>>, panic |-> TRUE]
     ELSE [s |-> SubSeq(out, 1, Len(out) - 1), panic |-> FALSE]

\* shlex.Split on a text without quotes or escapes: words are separated by
\* white space, and a "#" where a word would start begins a comment that runs
\* to the next line break; inside a word a "#" is an ordinary character.
\* state: "start", "word" (w is the word so far) or "comment".
RECURSIVE shlexSplit(_, _, _)
shlexSplit(s, state, w) ==
  IF s = <<>> THEN (IF state = "word" THEN <<w>> ELSE <<>>)
  ELSE LET c == Head(s)
           r == Tail(s)
       IN CASE state = "start" ->
                 IF c \in {" ", "\n"} THEN shlexSplit(r, "start", <<>>)
                 ELSE IF c = "#" THEN shlexSplit(r, "comment", <<>>)
                 ELSE shlexSplit(r, "word", <<c>>)
            [] state = "word" ->
                 IF c \in {" ", "\n"} THEN <<w>> \o shlexSplit(r, "start", <<>>)
                 ELSE shlexSplit(r, "word", Append(w, c))
            [] OTHER ->
                 IF c = "\n" THEN shlexSplit(r, "start", <<>>)
                 ELSE shlexSplit(r, "comment", <<>>)

\* ParseConfigFile: shlex.Split reports no error on a text without quotes.
ParseConfigFile(fileContents) ==
  LET cmdline == fileToCmdlineArgs(fileContents)
  IN IF cmdline.panic THEN [args |-> <<>>, panic |-> TRUE]
     ELSE [args |-> shlexSplit(cmdline.s, "start", <<>>), panic |-> FALSE]

\* No text has been parsed.
NoParse == [op |-> "none", args |-> <<>>, panic |-> FALSE]

InitConfig ==
  /\ NoIterator
  /\ cell = NoCell
  /\ box = NoBox
  /\ env = NoEnv
  /\ \E t \in FileTexts : cfg = [text |-> t, res |-> NoParse]

ParseConfigFileCall ==
  /\ cfg.res.op = "none"
  /\ cfg' = [cfg EXCEPT !.res = [op |-> "ParseConfigFile",
                                 args |-> ParseConfigFile(cfg.text).args,
                                 panic |-> ParseConfigFile(cfg.text).panic]]
  /\ UNCHANGED <<iterVars, cell, box, env>>

SpecConfig == InitConfig /\ [][ParseConfigFileCall]_vars

\* ===================================================================== claims
\* Whether some option-set of list l is named n, and the first one that is.
HasName(l, n) == \E i \in 1..Len(l) : SetName(l[i]) = n

FirstNamed(l, n) ==
  l[CHOOSE i \in 1..Len(l) :
      /\ SetName(l[i]) = n
      /\ \A j \in 1..(i - 1) : SetName(l[j]) # n]

\* The matched option-set's parse failed: the error is neither nil nor one of
\* the iterator's own two.
ParseFailed(e) == e.kind \notin {"nil", "ErrUnknownCommand", "ErrNoMatchingFlagSet"}

\* The uses of option n in a segment, and the value they amount to: the
\* texts in order for a slice, the last text parsed for a scalar.
UsesOfOpt(seg, n) == SelectSeq(seg.uses, LAMBDA u : u.name = n)

SegmentValue(o, us) ==
  CASE o.type = "StringSlice" -> [i \in 1..Len(us) |-> us[i].toks[2]]
    [] o.type = "bool" -> TRUE
    [] o.type = "int" -> IF us[Len(us)].toks[2] = "7" THEN 7 ELSE 0
    [] OTHER -> us[Len(us)].toks[2]

\* The default an option was declared with.
DeclaredDefault(o) == IF o.type = "StringSlice" THEN <<>> ELSE o.def

\* C1: on an argument vector made of segments (command name, then options the
\* command accepts), the k-th Next returns true with FlagSet() the k-th
\* segment's command and its storage holding the values that segment
\* supplies; the Next after the last segment returns false with no error.
C1_ChainedSegments ==
  op = "Next" =>
    IF calls <= Len(segs)
    THEN /\ ret
         /\ Len(hist) = calls
         /\ curr = segs[calls].set
         /\ \A n \in DOMAIN Opts(segs[calls].set) :
              UsesOfOpt(segs[calls], n) # <<>> =>
                vals[segs[calls].set][n] =
                  SegmentValue(Opts(segs[calls].set)[n], UsesOfOpt(segs[calls], n))
    ELSE ~ret /\ err = NoErr

C1_Witness ==
  /\ op = "Next"
  /\ calls = Len(segs) + 1
  /\ Len(segs) = 2
  /\ segs[1].cmd # segs[2].cmd
  /\ segs[1].uses # <<>>
  /\ segs[2].uses # <<>>
  /\ ~ret

\* C2: after every Next that matches a command, each option of the matched
\* option-set that the segment does not supply holds its declared default,
\* whatever the option's type and however the option-set was built.
C2_ResetToDeclaredDefault ==
  (op = "Next" /\ calls <= Len(segs)) =>
    \A n \in DOMAIN Opts(segs[calls].set) :
      UsesOfOpt(segs[calls], n) = <<>> =>
        vals[segs[calls].set][n] = DeclaredDefault(Opts(segs[calls].set)[n])

\* C3: when a command with an accumulating option is matched again and the
\* later segment supplies no value for it, the accumulation after the later
\* match is empty; in general it holds the later segment's values only.
C3_SliceNotCarriedOver ==
  (op = "Next" /\ calls <= Len(segs)) =>
    \A n \in DOMAIN Opts(segs[calls].set) :
      Opts(segs[calls].set)[n].type = "StringSlice" =>
        vals[segs[calls].set][n] =
          SegmentValue(Opts(segs[calls].set)[n], UsesOfOpt(segs[calls], n))

C3_Witness ==
  /\ op = "Next"
  /\ ret
  /\ calls = 2
  /\ segs[1].set = segs[2].set
  /\ Opts(segs[2].set)["x"].type = "StringSlice"
  /\ UsesOfOpt(segs[1], "x") # <<>>
  /\ UsesOfOpt(segs[2], "x") = <<>>
  /\ hist[1].vals["x"] # <<>>
  /\ vals[curr]["x"] = <<>>

\* Whether sequence t is what is left of sequence a after dropping k >= 1
\* tokens from its front.
IsProperTail(t, a) == \E k \in 1..Len(a) : t = SubSeq(a, k + 1, Len(a))

\* C4: after every Next that returns true the remaining arguments are exactly
\* the matched option-set's unparsed tail (FlagSet().Args()), a proper tail
\* of the arguments before the step: nothing else is removed or reordered.
C4_ArgsAreUnparsedTail ==
  [][(op' = "Next" /\ ret') =>
       /\ Args' = fsArgs'[curr']
       /\ IsProperTail(Args', Args)
       /\ Args' = Parse(curr', ResetAll(curr', vals[curr']), Tail(Args)).args]_vars

C4_Witness ==
  /\ op = "Next"
  /\ ret
  /\ Args # <<>>
  /\ Args = fsArgs[curr]
  /\ Head(Args) = "7"

\* C5: a Next whose head token names no option-set returns false with
\* ErrUnknownCommand carrying that token and changes nothing else: the
\* arguments, every option value, every FlagSet's own arguments, the matched
\* option-set and the ever-matched flag stay as they were.
C5_UnknownCommandNoEffect ==
  [][(op' = "Next" /\ Args # <<>> /\ ~HasName(Sets, Head(Args))) =>
       /\ ~ret'
       /\ err' = ErrUnknownCommand(Head(Args))
       /\ Args' = Args
       /\ vals' = vals
       /\ fsArgs' = fsArgs
       /\ curr' = curr
       /\ parsedOne' = parsedOne
       /\ hist' = hist]_vars

C5_Witness ==
  /\ op = "Next"
  /\ ~ret
  /\ err = ErrUnknownCommand("7")
  /\ Args # <<>>
  /\ Head(Args) = "7"
  /\ curr # NoSet
  /\ hist # <<>>

\* C6: a Next with no remaining arguments, on an iterator no step of which
\* has succeeded, returns false with ErrNoMatchingFlagSet, for any list of
\* option-sets.
C6_NoMatchOnEmpty ==
  [][(op' = "Next" /\ Args = <<>> /\ hist = <<>>) =>
       (~ret' /\ err' = ErrNoMatchingFlagSet)]_vars

C6_Witness ==
  /\ op = "Next"
  /\ ~ret
  /\ Args = <<>>
  /\ hist = <<>>
  /\ Sets # <<>>
  /\ err = ErrNoMatchingFlagSet

\* C7: once a Next has returned true, a Next with no remaining arguments
\* returns false with a nil error, and ErrNoMatchingFlagSet is never the
\* error, whatever failed steps and Advance calls came in between.
C7_ExhaustedAfterSuccess ==
  /\ [](hist # <<>> => err # ErrNoMatchingFlagSet)
  /\ [][(op' = "Next" /\ Args = <<>> /\ hist # <<>>) => (~ret' /\ err' = NoErr)]_vars

C7_Witness ==
  /\ op = "Next"
  /\ ~ret
  /\ Args = <<>>
  /\ hist # <<>>
  /\ err = NoErr

\* C8 as stated: when the matched option-set's parse fails, the remaining
\* arguments are the earlier ones without the command name.
C8_HeadConsumedOnFailure ==
  [][(op' = "Next" /\ ~ret' /\ ParseFailed(err')) => Args' = Tail(Args)]_vars

\* C8 as amended: when the matched option-set's parse fails (a help request
\* included), the remaining arguments are exactly the earlier ones: not even
\* the command name is consumed.
C8_ArgsKeptOnFailure ==
  [][(op' = "Next" /\ ~ret' /\ ParseFailed(err')) => Args' = Args]_vars

C8_Witness ==
  /\ op = "Next"
  /\ ~ret
  /\ err = ErrHelp
  /\ Len(Args) >= 2
  /\ HasName(Sets, Head(Args))
  /\ Args[2] = "-help"

\* C9: when the matched option-set's parse fails, Next returns false and
\* Err() is the very error the parser returned; a help request right after
\* the command name is flag.ErrHelp, which is none of ErrUnknownCommand,
\* ErrNoMatchingFlagSet and the parser's other errors.
C9_ParserErrorUnchanged ==
  [][(op' = "Next" /\ Args # <<>> /\ HasName(Sets, Head(Args))) =>
       LET s == FirstNamed(Sets, Head(Args))
           p == Parse(s, ResetAll(s, vals[s]), Tail(Args))
       IN /\ p.err # NoErr => (~ret' /\ err' = p.err)
          /\ (Len(Args) >= 2 /\ Args[2] = "-help") =>
               /\ ~ret'
               /\ err' = ErrHelp
               /\ err'.kind \notin {"ErrUnknownCommand", "ErrNoMatchingFlagSet",
                                    "flag provided but not defined",
                                    "flag needs an argument", "invalid value",
                                    "invalid boolean flag"}]_vars

C9_Witness ==
  /\ op = "Next"
  /\ ~ret
  /\ err = ErrHelp
  /\ hist # <<>>

\* C10 as stated: FlagSet() is the option-set matched by the most recent Next
\* that returned true, none if there was no such Next.
C10_CurrIsLastTrueMatch ==
  curr = IF hist = <<>> THEN NoSet ELSE hist[Len(hist)].set

\* C10 as amended: FlagSet() is the option-set whose name the head token
\* matched in the most recent Next that found a name, whether its parse then
\* succeeded or failed, none if no Next found one; a Next on an unknown
\* command or on no arguments, and Advance, leave it as it was.
C10_CurrIsLastNameMatch ==
  /\ [](hist = <<>> \/ op # "Next" \/ ~ret \/ curr = hist[Len(hist)].set)
  /\ [][curr' = CASE op' = "Next" /\ Args # <<>> /\ HasName(Sets, Head(Args)) ->
                       FirstNamed(Sets, Head(Args))
                  [] op' = "Init" -> NoSet
                  [] OTHER -> curr]_vars

C10_Witness ==
  /\ op = "Next"
  /\ ~ret
  /\ ParseFailed(err)
  /\ hist # <<>>
  /\ curr # NoSet
  /\ curr # hist[Len(hist)].set

\* C11: a Next or Advance call never makes the remaining arguments longer and
\* a Next that returns true makes them at least one token shorter, so the
\* number of true steps plus the number of remaining arguments never exceeds
\* the length of the argument vector: the true steps are at most that many,
\* and a run of Next calls cannot return true forever.
C11_ArgsShrink ==
  [][(op' \in {"Next", "Advance"}) =>
       /\ Len(Args') <= Len(Args)
       /\ (op' = "Next" /\ ret') => Len(Args') < Len(Args)
       /\ Len(hist') + Len(Args') <= Len(hist) + Len(Args)]_vars

C11_Witness ==
  /\ op = "Next"
  /\ ~ret
  /\ Len(hist) = 2
  /\ Args # <<>>

\* C12 as stated: when a run of Next calls has reached a call that returns
\* false, no recognized command name is left at the head of the remaining
\* arguments and these are what the last matched option-set left unparsed.
C12_AllConsumedAtStop ==
  (op = "Next" /\ ~ret) =>
    /\ Args = <<>> \/ ~HasName(Sets, Head(Args))
    /\ curr # NoSet => Args = fsArgs[curr]

\* C12: when a run of Next calls stops on a call that returns false without a
\* parse failure, no recognized command name is left at the head of the
\* remaining arguments and these are what the last option-set matched by a
\* true step left unparsed; when it stops on a parse failure, the remaining
\* arguments still begin with the name of the command whose parse failed.
C12_ConsumedUnlessParseFailed ==
  (op = "Next" /\ ~ret) =>
    IF ParseFailed(err)
    THEN /\ Args # <<>>
         /\ HasName(Sets, Head(Args))
         /\ curr = FirstNamed(Sets, Head(Args))
    ELSE /\ Args = <<>> \/ ~HasName(Sets, Head(Args))
         /\ hist # <<>> =>
              /\ curr = hist[Len(hist)].set
              /\ Args = fsArgs[curr]

C12_Witness ==
  /\ op = "Next"
  /\ ~ret
  /\ err.kind = "ErrUnknownCommand"
  /\ Len(hist) = 2
  /\ Args # <<>>
  /\ Args = fsArgs[curr]

\* What a caller can see of a Next step that the claim C13 compares: the
\* return value, the matched command, the error, the remaining arguments and,
\* when the step matched a command, that option-set's values.
Observed(it0, r) ==
  [ret |-> r.ret, curr |-> r.it.curr, err |-> r.it.err, Args |-> r.it.Args,
   vals |-> IF it0.Args # <<>> /\ HasName(it0.Sets, Head(it0.Args))
            THEN r.st.vals[r.it.curr]
            ELSE <<>>]

\* Option-sets as they are right after construction.
FreshSets == [vals |-> InitVals, fsArgs |-> [s \in SetIds |-> <<>>]]

\* C13: whatever earlier steps or earlier iterations left in the option-sets,
\* a Next step returns the same value, matches the same command and leaves the
\* same values of the matched option-set, remaining arguments and error as
\* the same step on freshly constructed option-sets.
C13_UsedSetsAsFresh ==
  [][op' = "Next" =>
       [ret |-> ret', curr |-> curr', err |-> err', Args |-> Args',
        vals |-> IF Args # <<>> /\ HasName(Sets, Head(Args)) THEN vals'[curr'] ELSE <<>>]
         = Observed(it, NextStep(it, FreshSets))]_vars

\* C14 as stated: a Next step that fails in the option-set's parse leaves the
\* output storage of every option-set matched by an earlier true step as it
\* was, also when the failing step matches one of those option-sets again.
C14_EarlierValuesKept ==
  [][(op' = "Next" /\ ~ret' /\ ParseFailed(err')) =>
       \A i \in 1..Len(hist) : vals'[hist[i].set] = vals[hist[i].set]]_vars

\* C14: a Next step that fails in the option-set's parse leaves the output
\* storage of every option-set matched by an earlier true step as it was,
\* except the option-set the failing step itself matched.
C14_OtherSetsValuesKept ==
  [][(op' = "Next" /\ ~ret' /\ ParseFailed(err')) =>
       \A i \in 1..Len(hist) :
         hist[i].set # curr' => vals'[hist[i].set] = vals[hist[i].set]]_vars

C14_Witness ==
  /\ op = "Next"
  /\ ~ret
  /\ ParseFailed(err)
  /\ Len(hist) = 1
  /\ hist[1].set # curr
  /\ vals[hist[1].set] = hist[1].vals
  /\ vals[hist[1].set] # InitVals[hist[1].set]
  /\ vals[curr] # InitVals[curr]
  /\ Args # <<>>

\* C15 as stated: while the error of the last Next is ErrUnknownCommand or
\* ErrNoMatchingFlagSet, no later Next on the iterator returns true, whatever
\* Advance calls are made in between.
C15_TerminalAfterIteratorError ==
  [][(err.kind \in {"ErrUnknownCommand", "ErrNoMatchingFlagSet"}) =>
       ~(op' = "Next" /\ ret')]_vars

\* C15: after a Next that returned false with ErrNoMatchingFlagSet, every Next
\* and every Advance returns false and Next reports the same error again;
\* after a Next that returned false with ErrUnknownCommand, a Next called
\* while the remaining arguments are as that call left them returns false
\* with the same error and changes nothing.
C15_TerminalWhileArgsKept ==
  [][/\ (err = ErrNoMatchingFlagSet /\ op' \in {"Next", "Advance"}) =>
          ~ret' /\ Args' = <<>> /\ err' = err
     /\ (op = "Next" /\ err.kind = "ErrUnknownCommand" /\ op' = "Next") =>
          ~ret' /\ err' = err /\ Args' = Args /\ vals' = vals /\ curr' = curr]_vars

C15_Witness ==
  /\ op = "Next"
  /\ ~ret
  /\ err.kind = "ErrUnknownCommand"
  /\ Len(Args) >= 2
  /\ HasName(Sets, Args[2])
  /\ hist # <<>>

Min(a, b) == IF a <= b THEN a ELSE b

\* The arguments without their first k tokens.
Drop(a, k) == [i \in 1..(Len(a) - k) |-> a[i + k]]

\* C16: for every k, Advance(k) on n remaining arguments leaves them without
\* their first min(k, n) tokens and returns true exactly when some argument
\* is left; when k >= n none is left, it returns false, and the Next after it
\* returns false with ErrNoMatchingFlagSet if no step has succeeded and with
\* no error otherwise.
C16_AdvanceDropsPrefix ==
  \A k \in 0..(MaxArgs + 1) :
    LET n == Len(Args)
        r == AdvanceStep(it, k)
        nx == NextStep(r.it, st)
    IN /\ r.it.Args = Drop(Args, Min(k, n))
       /\ r.ret = (r.it.Args # <<>>)
       /\ k >= n =>
            /\ r.it.Args = <<>>
            /\ ~r.ret
            /\ ~nx.ret
            /\ nx.it.err = IF hist = <<>> THEN ErrNoMatchingFlagSet ELSE NoErr

C16_Witness ==
  /\ op = "Advance"
  /\ ~ret
  /\ Args = <<>>
  /\ hist # <<>>
  /\ err.kind = "ErrUnknownCommand"

\* C17: an Advance call changes nothing but the remaining arguments (the
\* matched option-set, the last error, the ever-matched flag, the cached
\* names and every option value stay), and for 0 <= k < n the Next after
\* Advance(k) does what Next does on the same iterator with the arguments
\* from index k on.
C17_AdvanceTouchesOnlyArgs ==
  /\ [][op' = "Advance" =>
          /\ curr' = curr
          /\ err' = err
          /\ parsedOne' = parsedOne
          /\ names' = names
          /\ Sets' = Sets
          /\ vals' = vals
          /\ fsArgs' = fsArgs]_vars
  /\ [](\A k \in 0..MaxArgs :
          k < Len(Args) =>
            NextStep(AdvanceStep(it, k).it, st)
              = NextStep([it EXCEPT !.Args = Drop(Args, k)], st))

C17_Witness ==
  /\ op = "Advance"
  /\ ret
  /\ err.kind = "ErrUnknownCommand"
  /\ curr # NoSet
  /\ parsedOne
  /\ HasName(Sets, Head(Args))

\* Position i of the list l holds an option-set whose name an earlier
\* position already has.
Shadowed(l, i) == \E j \in 1..(i - 1) : SetName(l[j]) = SetName(l[i])

\* C18: a Next whose head token equals the name of some option-set matches
\* the first option-set of the list with exactly that name; an option-set
\* that comes later in the list under the same name is never the matched one
\* and its values and arguments are not touched.
C18_FirstOfEqualNamesWins ==
  [][op' = "Next" =>
       /\ (Args # <<>> /\ \E i \in 1..Len(Sets) : SetName(Sets[i]) = Head(Args)) =>
            curr' = FirstNamed(Sets, Head(Args))
       /\ \A i \in 1..Len(Sets) :
            Shadowed(Sets, i) =>
              /\ curr' # Sets[i]
              /\ vals'[Sets[i]] = vals[Sets[i]]
              /\ fsArgs'[Sets[i]] = fsArgs[Sets[i]]]_vars

C18_Witness ==
  /\ op = "Next"
  /\ ret
  /\ Sets = <<3, 1, 2>>
  /\ curr = 3
  /\ Len(hist) = 2
  /\ hist[1].set = 3
  /\ vals[3].x = 7
  /\ vals[1] = InitVals[1]

\* C19: right after Reset an option holds the default fixed when it was
\* constructed, whatever successful or failed Set calls came before, and no
\* Set or Reset changes the default the option stores.
C19_ResetRestoresDefault ==
  [][/\ cell'.o = cell.o
     /\ cell'.init = cell.init
     /\ (cell'.ops # cell.ops /\ cell'.ops[Len(cell'.ops)] = "Reset") =>
          cell'.cur = cell.init]_vars

C19_Witness ==
  /\ cell.o.impl = "resettableValue"
  /\ cell.o.type = "int"
  /\ cell.ops = <<"Set", "SetFailed", "Reset">>
  /\ cell.cur = cell.o.def

\* C20: on every kind of option a Reset that directly follows a Reset leaves
\* the value the first one left, and resetting any reachable value twice
\* gives what resetting it once gives.
C20_ResetIdempotent ==
  /\ [][(cell.ops # <<>> /\ cell.ops[Len(cell.ops)] = "Reset"
           /\ cell'.ops = Append(cell.ops, "Reset")) =>
          cell'.cur = cell.cur]_vars
  /\ [](cell.o.impl # "none" =>
          ValueReset(ValueReset(cell)).cur = ValueReset(cell).cur)

C20_Witness ==
  /\ cell.o.impl = "resettableFlagVar"
  /\ cell.o.type = "string"
  /\ cell.ops = <<"Set", "Reset", "Reset">>
  /\ cell.cur = "dev"

\* C21: the sequence or map a caller took out of a container option before a
\* Reset shows the same contents after the Reset as before it, and after
\* every Set that follows the Reset.
C21_ResetLeavesHeldContents ==
  [][(box.held.addr # 0 /\ box'.held = box.held
        /\ (box'.resetSince \/ box.resetSince)) =>
       Contents(box', box'.held) = Contents(box, box.held)]_vars

C21_Witness ==
  /\ box.kind = "EnvMap"
  /\ box.resetSince
  /\ box.held.addr # 0
  /\ Contents(box, box.held) # EmptyObject("EnvMap")
  /\ Contents(box, box.hdr) # EmptyObject("EnvMap")
  /\ Contents(box, box.hdr) # Contents(box, box.held)

\* The parsed form of a text for an option of kind o.
ParseOf(o, s) ==
  CASE o.type = "bool" -> parseBool(s).v
    [] o.type \in {"int", "Int64Slice"} -> parseInt(s).v
    [] OTHER -> s

IsScalar(o) == o.type \in {"bool", "int", "string"}

IsSequence(o) == o.type \in {"StringSlice", "Int64Slice"}

\* A Set call that returned no error has just been made on the cell.
SetSucceeded == cell'.ops = Append(cell.ops, "Set")

SetRejected == cell'.ops = Append(cell.ops, "SetFailed")

DefaultApplies(o) == SetValue(o, ZeroOf(o), o.def).ok

\* C24: an option declared through Var or TextVar with a default text that
\* cannot be applied makes its constructor panic, and on an option whose
\* constructor returned no Reset panics.
C24_BadDefaultFailsConstruction ==
  /\ (cell.ops = <<>> /\ cell.o.impl \in {"resettableFlagVar", "textMarshalVar"}
        /\ ~DefaultApplies(cell.o)) => cell.panic
  /\ cell.ops # <<>> => cell.ops[Len(cell.ops)] # "ResetPanic"

\* C25: String() never fails: on a constructed option it returns the current
\* value formatted as text, and on an option without storage pointer, a nil
\* option or an option without render function it returns "".
C25_RenderNeverFails ==
  cell.render.shape # "none" =>
    /\ ~cell.render.panic
    /\ cell.render.text = IF cell.render.shape = "constructed"
                          THEN FormatValue(cell.o, cell.cur)
                          ELSE ""

\* The Envs of the chain whose dictionary contains the key, and the nearest.
Holders(chain, key) ==
  {i \in 1..Len(chain) : ~chain[i].isNil /\ key \in DOMAIN chain[i].m}

Nearest(chain, key) ==
  CHOOSE i \in Holders(chain, key) : \A j \in Holders(chain, key) : i <= j

\* C26 as stated: a lookup finds the key exactly when some Env of the chain
\* contains it and then returns the value the nearest such Env holds; GetOr
\* returns the default, and GetOrError an error, exactly when no Env of the
\* chain contains the key.
C26_NearestHolderWins ==
  LET hs == Holders(env.chain, env.q.key)
  IN /\ env.q.op \in {"Lookup", "GetOrError"} =>
          /\ env.q.ok = (hs # {})
          /\ hs # {} =>
               <<env.q.v>> = SubSeq(env.chain[Nearest(env.chain, env.q.key)].m[env.q.key], 1, 1)
     /\ env.q.op = "GetOr" =>
          IF hs = {} THEN env.q.v = "default"
          ELSE <<env.q.v>> = SubSeq(env.chain[Nearest(env.chain, env.q.key)].m[env.q.key], 1, 1)

\* C26: a lookup stops at the nearest Env of the chain whose dictionary
\* contains the key; when that entry holds at least one value the lookup
\* returns its first value, and when it holds none, or no Env contains the
\* key, the lookup reports not found: GetOr returns the default and
\* GetOrError an error.
C26_NearestHolderWinsIfNonEmpty ==
  LET hs == Holders(env.chain, env.q.key)
      found == hs # {} /\ env.chain[Nearest(env.chain, env.q.key)].m[env.q.key] # <<>>
  IN /\ env.q.op \in {"Lookup", "GetOrError"} =>
          /\ env.q.ok = found
          /\ found => env.q.v = env.chain[Nearest(env.chain, env.q.key)].m[env.q.key][1]
     /\ env.q.op = "GetOr" =>
          env.q.v = IF found
                    THEN env.chain[Nearest(env.chain, env.q.key)].m[env.q.key][1]
                    ELSE "default"

C26_Witness ==
  /\ env.q.op = "Lookup"
  /\ env.q.key = "K"
  /\ Len(env.chain) = 2
  /\ ~env.chain[1].isNil
  /\ DOMAIN env.chain[1].m = {"J"}
  /\ ~env.chain[2].isNil
  /\ "K" \in DOMAIN env.chain[2].m
  /\ env.q.ok
  /\ env.q.v = "b"

\* C30: for an Env with a parent, Keys() contains every key of its own
\* dictionary and of its ancestors' dictionaries, and Map() has an entry for
\* every key a lookup on that Env resolves.
C30_KeysCoverChain ==
  Len(env.chain) >= 2 =>
    /\ env.q.op = "Keys" =>
         /\ ~env.q.panic
         /\ \A i \in 1..Len(env.chain) :
              ~env.chain[i].isNil => DOMAIN env.chain[i].m \subseteq env.q.keys
    /\ env.q.op = "Map" =>
         /\ ~env.q.panic
         /\ \A k \in EnvKeys : lookupMany(env.chain, 1, k).ok => k \in DOMAIN env.q.m

\* C27: every Next first clears the error of the previous step: Next returns
\* true only with a nil error; it returns false with a nil error only when no
\* arguments remain and an earlier step succeeded; with arguments remaining a
\* false result carries an error; and with no arguments remaining the error is
\* ErrNoMatchingFlagSet or nil whatever error the previous step left.
C27_ErrOfThisNextOnly ==
  [][op' = "Next" =>
       /\ ret' => err' = NoErr
       /\ (~ret' /\ err' = NoErr) => (Args' = <<>> /\ hist # <<>>)
       /\ (~ret' /\ Args' # <<>>) => err' # NoErr
       /\ Args = <<>> => err' = IF hist = <<>> THEN ErrNoMatchingFlagSet ELSE NoErr]_vars

C27_Witness ==
  /\ op = "Next"
  /\ ~ret
  /\ err = NoErr
  /\ Args = <<>>
  /\ Len(hist) = 1
  /\ \E s \in SetIds : vals[s] # InitVals[s]

\* C28: Init(sets, args), called in any iterator state, leaves the iterator
\* equal to a newly constructed one over (args, sets), so the next Next acts on
\* it as on a new iterator: a match is a set of the new list named by the
\* first argument, and empty args yield ErrNoMatchingFlagSet even if a step
\* had succeeded before Init.
C28_InitEqualsNew ==
  [][/\ op' = "Init" =>
          /\ it' = newFlagSetIterator(Args', Sets')
          /\ NextStep(it', st') = NextStep(newFlagSetIterator(Args', Sets'), st')
     /\ (op = "Init" /\ op' = "Next") =>
          /\ Args = <<>> => (~ret' /\ err' = ErrNoMatchingFlagSet)
          /\ ret' => /\ \E i \in 1..Len(Sets) : Sets[i] = curr'
                     /\ SetName(curr') = Args[1]
                     /\ names' = [isNil |-> FALSE, elems |-> BuildNames(Sets)]]_vars

\* Init has been called with empty args on an iterator that had parsed
\* arguments into its option-sets.
C28_Witness ==
  /\ op = "Init"
  /\ Args = <<>>
  /\ \E s \in SetIds : fsArgs[s] # <<>> \/ vals[s] # InitVals[s]
  /\ names = NilNames
  /\ ~parsedOne

\* The first character of a line that is not a blank is "#".
IsCommentLine(line) ==
  \E i \in 1..Len(line) : line[i] = "#" /\ \A j \in 1..(i - 1) : line[j] = " "

\* The tokens of the lines that are not comments, in file order.
RECURSIVE TokensOfLines(_)
TokensOfLines(lines) ==
  IF lines = <<>> THEN <<>>
  ELSE (IF IsCommentLine(Head(lines)) THEN <<>> ELSE shlexSplit(Head(lines), "start", <<>>))
       \o TokensOfLines(Tail(lines))

\* C29: ParseConfigFile never fails on a text without argument text: for an
\* empty text and for a text whose every line is a comment it returns an
\* empty argument vector; in general it returns the tokens of the
\* non-comment lines in file order.
C29_EmptyTextGivesNoArgs ==
  cfg.res.op = "ParseConfigFile" =>
    /\ ~cfg.res.panic
    /\ cfg.res.args = TokensOfLines(ScanLines(cfg.text))

====
